---- MODULE Spec2Model ----
(***************************************************************************)
(* Trade Backtesting Tracker: the ledger store (records and starting       *)
(* capital kept in React state and mirrored to localStorage by effects)    *)
(* and the analytics folded from it, for the two screens of the            *)
(* repository: the analytics screen (src/unnamed/part_000) and the basic   *)
(* screen (src/src/App.tsx).                                               *)
(*                                                                         *)
(* JavaScript numbers are modelled as exact rationals [n, d] (d > 0, in    *)
(* lowest terms) plus NaN ([0, 0]) and +/-Infinity ([+/-1, 0]); binary     *)
(* rounding error, the sign of zero and exponent notation are left out.    *)
(* Strings that the code parses or prints as numbers are sequences of      *)
(* one-character strings; a JSON text is a sequence of tokens, each token  *)
(* such a sequence.                                                        *)
(***************************************************************************)
EXTENDS Integers, Sequences, FiniteSets, TLC

VARIABLES
  tp,               \* analytics screen: the TP input's text
  sl,               \* analytics screen: the SL input's text
  showAnalytics,    \* analytics screen: the analytics dialog is open
  startingCapital,  \* analytics screen: the starting capital (a number)
  records,          \* analytics screen: the ledger
  pendingEffects,   \* analytics screen: effects committed and not yet run
  crashed,          \* analytics screen: an initialiser or the render threw
  csv,              \* analytics screen: the file the last step downloaded
  localStorage,     \* analytics screen: the browser's key-value store
  basic,            \* basic screen: its state (tp, sl, records, ...)
  basicStorage,     \* basic screen: the browser's store (the one key it uses)
  now               \* the last reading of Date.now(), in ms

vars == <<tp, sl, showAnalytics, startingCapital, records, pendingEffects,
          crashed, csv, localStorage, basic, basicStorage, now>>

(***************************************************************************)
(* Bounds of the model.                                                    *)
(***************************************************************************)
MaxRecords == 2
MaxClock == 1

(***************************************************************************)
(* JavaScript numbers.                                                     *)
(***************************************************************************)
Abs(i) == IF i < 0 THEN -i ELSE i

RECURSIVE GCD(_, _)
GCD(a, b) == IF b = 0 THEN a ELSE GCD(b, a % b)

Rat(n, d) ==
  LET g == GCD(Abs(n), Abs(d))
      s == IF d < 0 THEN -1 ELSE 1
  IN  [n |-> s * (n \div g), d |-> s * (d \div g)]

Num(i) == [n |-> i, d |-> 1]

NaN == [n |-> 0, d |-> 0]

Infinity(s) == [n |-> s, d |-> 0]

IsNaN(x) == x.d = 0 /\ x.n = 0

IsFinite(x) == x.d # 0

Sign(i) == IF i < 0 THEN -1 ELSE 1

Neg(x) == [n |-> -x.n, d |-> x.d]

\* x + y
Add(x, y) ==
  IF IsNaN(x) \/ IsNaN(y) THEN NaN
  ELSE IF x.d = 0 THEN (IF y.d = 0 /\ y.n # x.n THEN NaN ELSE x)
  ELSE IF y.d = 0 THEN y
  ELSE LET l == (x.d \div GCD(x.d, y.d)) * y.d
       IN  Rat(x.n * (l \div x.d) + y.n * (l \div y.d), l)

\* x - y
Sub(x, y) == Add(x, Neg(y))

\* x * y
Mul(x, y) ==
  IF IsNaN(x) \/ IsNaN(y) THEN NaN
  ELSE IF x.d = 0 \/ y.d = 0
       THEN (IF x.n = 0 \/ y.n = 0 THEN NaN
             ELSE Infinity(Sign(x.n) * Sign(y.n)))
  ELSE Rat(x.n * y.n, x.d * y.d)

\* x / y
Div(x, y) ==
  IF IsNaN(x) \/ IsNaN(y) THEN NaN
  ELSE IF x.d = 0 THEN (IF y.d = 0 THEN NaN
                        ELSE Infinity(Sign(x.n) * Sign(y.n)))
  ELSE IF y.d = 0 THEN Num(0)
  ELSE IF y.n = 0 THEN (IF x.n = 0 THEN NaN ELSE Infinity(Sign(x.n)))
  ELSE Rat(x.n * y.d, x.d * y.n)

\* x > y
Gt(x, y) ==
  /\ ~IsNaN(x)
  /\ ~IsNaN(y)
  /\ IF x.d = 0 /\ y.d = 0 THEN x.n > y.n
     ELSE IF x.d = 0 THEN x.n > 0
     ELSE IF y.d = 0 THEN y.n < 0
     ELSE x.n * y.d > y.n * x.d

\* x >= y
Ge(x, y) == ~IsNaN(x) /\ ~IsNaN(y) /\ ~Gt(y, x)

\* Math.max(x, y)
MathMax(x, y) ==
  IF IsNaN(x) \/ IsNaN(y) THEN NaN ELSE IF Gt(y, x) THEN y ELSE x

(***************************************************************************)
(* Texts: sequences of one-character strings.                              *)
(***************************************************************************)
Digits == <<"0", "1", "2", "3", "4", "5", "6", "7", "8", "9">>

DigitValues == [c \in {Digits[i] : i \in 1..10} |-> (CHOOSE i \in 1..10 : Digits[i] = c) - 1]

IsDigit(c) == c \in DOMAIN DigitValues

DigitValue(c) == DigitValues[c]

RECURSIVE Pow10(_)
Pow10(k) == IF k = 0 THEN 1 ELSE 10 * Pow10(k - 1)

RECURSIVE NatToText(_)
NatToText(n) ==
  IF n < 10 THEN <<Digits[n + 1]>>
  ELSE Append(NatToText(n \div 10), Digits[(n % 10) + 1])

\* The value of the first k digits of t.
RECURSIVE DigitsToNat(_, _)
DigitsToNat(t, k) ==
  IF k = 0 THEN 0 ELSE 10 * DigitsToNat(t, k - 1) + DigitValue(t[k])

AllDigits(t) == \A i \in 1..Len(t) : IsDigit(t[i])

RECURSIVE Zeros(_)
Zeros(k) == IF k = 0 THEN <<>> ELSE <<"0">> \o Zeros(k - 1)

NaNText == <<"N", "a", "N">>

InfinityText == <<"I", "n", "f", "i", "n", "i", "t", "y">>

\* The digits of m with a decimal point before the last k of them.
Decimal(m, k) ==
  LET t == NatToText(m)
      p == IF Len(t) <= k THEN Zeros(k + 1 - Len(t)) \o t ELSE t
  IN  IF k = 0 THEN p
      ELSE SubSeq(p, 1, Len(p) - k) \o <<".">> \o SubSeq(p, Len(p) - k + 1, Len(p))

\* x.toFixed(f): x rounded to f decimals (a tie away from zero).
ToFixed(x, f) ==
  IF IsNaN(x) THEN NaNText
  ELSE IF x.d = 0 THEN (IF x.n < 0 THEN <<"-">> ELSE <<>>) \o InfinityText
  ELSE LET m == (2 * Abs(x.n) * Pow10(f) + x.d) \div (2 * x.d)
       IN  (IF x.n < 0 THEN <<"-">> ELSE <<>>) \o Decimal(m, f)

\* String(x), `${x}`: the shortest decimal of a number.
StringOf(x) ==
  IF IsNaN(x) THEN NaNText
  ELSE IF x.d = 0 THEN (IF x.n < 0 THEN <<"-">> ELSE <<>>) \o InfinityText
  ELSE LET k == CHOOSE j \in 0..9 :
                  /\ Pow10(j) % x.d = 0
                  /\ \A i \in 0..(j - 1) : Pow10(i) % x.d # 0
       IN  (IF x.n < 0 THEN <<"-">> ELSE <<>>)
             \o Decimal(Abs(x.n) * (Pow10(k) \div x.d), k)

\* The value of an unsigned decimal literal: digits, or digits.digits.
UnsignedValue(t) ==
  LET dots == {i \in 1..Len(t) : t[i] = "."}
  IN  IF dots = {} THEN
        (IF t # <<>> /\ AllDigits(t) THEN Num(DigitsToNat(t, Len(t))) ELSE NaN)
      ELSE LET p == CHOOSE i \in dots : TRUE
               a == SubSeq(t, 1, p - 1)
               b == SubSeq(t, p + 1, Len(t))
           IN  IF Cardinality(dots) = 1 /\ AllDigits(a) /\ AllDigits(b)
                  /\ Len(a) + Len(b) > 0
               THEN Rat(DigitsToNat(a \o b, Len(a) + Len(b)), Pow10(Len(b)))
               ELSE NaN

\* Number(t): the empty string is 0, a decimal literal its value, the rest NaN.
NumberOf(t) ==
  IF t = <<>> THEN Num(0)
  ELSE LET neg == t[1] = "-"
           u == IF t[1] \in {"-", "+"} THEN SubSeq(t, 2, Len(t)) ELSE t
           v == IF u = InfinityText THEN Infinity(1) ELSE UnsignedValue(u)
       IN  IF neg THEN Neg(v) ELSE v

(***************************************************************************)
(* localStorage entries, and the JSON text of a ledger.                    *)
(***************************************************************************)
STORAGE_KEY == "trade-tracker-records"

CAPITAL_KEY == "starting-capital"

\* localStorage.getItem(key) of a key that is not there (null).
Absent == [present |-> FALSE, value |-> <<>>]

Item(v) == [present |-> TRUE, value |-> v]

\* `stored ? ... : ...`: null and the empty string are falsy.
Truthy(stored) == stored.present /\ stored.value # <<>>

JSONString(s) == <<"\"", s, "\"">>

JSONNumber(x) == IF IsFinite(x) THEN StringOf(x) ELSE <<"n", "u", "l", "l">>

StringifyRecord(r) ==
  << <<"{">>, JSONString("id"), <<":">>, JSONNumber(r.id), <<",">>,
     JSONString("decision"), <<":">>, JSONString(r.decision), <<",">>,
     JSONString("tp"), <<":">>, JSONNumber(r.tp), <<",">>,
     JSONString("sl"), <<":">>, JSONNumber(r.sl), <<",">>,
     JSONString("timestamp"), <<":">>, JSONNumber(r.timestamp), <<"}">> >>

RECURSIVE StringifyElements(_)
StringifyElements(rs) ==
  IF rs = <<>> THEN <<>>
  ELSE IF Len(rs) = 1 THEN StringifyRecord(rs[1])
  ELSE StringifyRecord(rs[1]) \o << <<",">> >> \o StringifyElements(Tail(rs))

\* JSON.stringify(records)
JSONStringify(rs) == << <<"[">> >> \o StringifyElements(rs) \o << <<"]">> >>

IsStringToken(t) == Len(t) = 3 /\ t[1] = "\"" /\ t[3] = "\""

Thrown == [ok |-> FALSE, value |-> <<>>, next |-> 0]

\* A string, or a number (no leading +, and finite).
ParseScalar(t) ==
  IF IsStringToken(t) THEN [ok |-> TRUE, value |-> t[2]]
  ELSE IF t = <<>> \/ t[1] = "+" THEN [ok |-> FALSE, value |-> <<>>]
  ELSE LET x == NumberOf(t)
       IN  IF IsFinite(x) THEN [ok |-> TRUE, value |-> x] ELSE [ok |-> FALSE, value |-> <<>>]

\* The members of an object from token i on, up to its closing brace.
RECURSIVE ParseMembers(_, _, _)
ParseMembers(ts, i, obj) ==
  IF i + 3 > Len(ts) THEN Thrown
  ELSE LET v == ParseScalar(ts[i + 2])
       IN  IF ~IsStringToken(ts[i]) \/ ts[i + 1] # <<":">> \/ ~v.ok THEN Thrown
           ELSE IF ts[i + 3] = <<"}">>
             THEN [ok |-> TRUE, value |-> (ts[i][2] :> v.value) @@ obj, next |-> i + 4]
           ELSE IF ts[i + 3] = <<",">>
             THEN ParseMembers(ts, i + 4, (ts[i][2] :> v.value) @@ obj)
           ELSE Thrown

ParseObject(ts, i) ==
  IF i + 1 > Len(ts) \/ ts[i] # <<"{">> THEN Thrown
  ELSE IF ts[i + 1] = <<"}">> THEN [ok |-> TRUE, value |-> <<>>, next |-> i + 2]
  ELSE ParseMembers(ts, i + 1, <<>>)

\* The elements of an array from token i on, up to its closing bracket, which
\* must end the text.
RECURSIVE ParseElements(_, _, _)
ParseElements(ts, i, acc) ==
  LET o == ParseObject(ts, i)
  IN  IF ~o.ok \/ o.next > Len(ts) THEN Thrown
      ELSE IF ts[o.next] = <<"]">> THEN
        (IF o.next = Len(ts)
         THEN [ok |-> TRUE, value |-> Append(acc, o.value), next |-> o.next + 1]
         ELSE Thrown)
      ELSE IF ts[o.next] = <<",">> THEN ParseElements(ts, o.next + 1, Append(acc, o.value))
      ELSE Thrown

\* JSON.parse(text) of an array of flat objects; ok = FALSE is a SyntaxError.
JSONParse(ts) ==
  IF Len(ts) < 2 \/ ts[1] # <<"[">> THEN Thrown
  ELSE IF ts[2] = <<"]">> THEN
    (IF Len(ts) = 2 THEN [ok |-> TRUE, value |-> <<>>, next |-> 3] ELSE Thrown)
  ELSE ParseElements(ts, 2, <<>>)

(***************************************************************************)
(* What the user can type, and what the store can hold at start.           *)
(***************************************************************************)
\* e.target.value of the TP and SL inputs (type="number": the empty string
\* or a decimal number).
TpTexts == {<<>>, <<"5", "0">>}

SlTexts == {<<>>, <<"2", "0">>}

\* e.target.value of the Starting Capital input.
CapitalTexts == {<<"0">>}

\* A ledger written by something other than this screen: Record.decision
\* is any string.
ForeignLedger ==
  << [id |-> Num(0), decision |-> "Maybe", tp |-> Num(50), sl |-> Num(20),
      timestamp |-> Num(0)] >>

\* The `trade-tracker-records` entry at start: absent, the empty string,
\* a truncated JSON text, or the JSON text of a ledger.
StoredRecords ==
  {Absent, Item(<<>>), Item(<< <<"[">>, <<"{">> >>), Item(JSONStringify(ForeignLedger))}

\* The `starting-capital` entry at start: absent, a number, or not a number.
StoredCapital == {Absent, Item(<<"a", "b", "c">>)}

(***************************************************************************)
(* The analytics screen (src/unnamed/part_000).                            *)
(***************************************************************************)
\* A variant of LoadStartingCapital that reads Number(stored) || 10000: a
\* stored capital of 0 would come back as 10000.
LoadStartingCapitalOrDefault(storage) ==
  LET stored == storage[CAPITAL_KEY]
      x == IF Truthy(stored) THEN NumberOf(stored.value) ELSE Num(10000)
  IN  IF x = Num(0) \/ IsNaN(x) THEN Num(10000) ELSE x

\* useState(() => { stored ? Number(stored) : 10000 })
LoadStartingCapital(storage) ==
  LET stored == storage[CAPITAL_KEY]
  IN  IF Truthy(stored) THEN NumberOf(stored.value) ELSE Num(10000)

\* useState(() => { stored ? JSON.parse(stored) : [] })
LoadRecords(storage) ==
  LET stored == storage[STORAGE_KEY]
  IN  IF Truthy(stored) THEN JSONParse(stored.value)
      ELSE [ok |-> TRUE, value |-> <<>>, next |-> 0]

\* The component as first rendered over a store: both effects are due after
\* the first commit; a throwing initialiser leaves nothing rendered.
Mount(storage) ==
  LET Rendered(loaded) ==
        [tp |-> <<>>, sl |-> <<>>, showAnalytics |-> FALSE,
         startingCapital |->
           IF loaded.ok THEN LoadStartingCapital(storage) ELSE Num(10000),
         records |-> IF loaded.ok THEN loaded.value ELSE <<>>,
         pendingEffects |-> IF loaded.ok THEN {STORAGE_KEY, CAPITAL_KEY} ELSE {},
         crashed |-> ~loaded.ok]
  IN  CHOOSE m \in {Rendered(loaded) : loaded \in {LoadRecords(storage)}} : TRUE

\* A variant of NewRecord that takes tp from the SL input and sl from the TP
\* input.
NewRecordSwapped(decision, tpText, slText, id, timestamp) ==
  [id |-> Num(id), decision |-> decision, tp |-> NumberOf(slText),
   sl |-> NumberOf(tpText), timestamp |-> Num(timestamp)]

\* const newRecord = { id: Date.now(), decision, tp: Number(tp), ... }
NewRecord(decision, tpText, slText, id, timestamp) ==
  [id |-> Num(id), decision |-> decision, tp |-> NumberOf(tpText),
   sl |-> NumberOf(slText), timestamp |-> Num(timestamp)]

\* A variant of SliceLast that drops the first record: prev.slice(1).
SliceFirst(prev) == SubSeq(prev, 2, Len(prev))

\* prev.slice(0, -1)
SliceLast(prev) == SubSeq(prev, 1, Len(prev) - 1)

\* A variant of DeleteLastOnClick that does not look at the answer.
DeleteLastUnasked(prev, confirm) == IF Len(prev) > 0 THEN SliceLast(prev) ELSE prev

\* Delete Last's onClick: if (!confirmClear) return; if (records.length > 0) ...
DeleteLastOnClick(prev, confirm) ==
  IF ~confirm THEN prev ELSE IF Len(prev) > 0 THEN SliceLast(prev) ELSE prev

\* A variant of EffectWrites without the starting-capital effect.
EffectWritesRecordsOnly(storage, due, recs, capital) ==
  [k \in DOMAIN storage |->
     IF k = STORAGE_KEY /\ k \in due THEN Item(JSONStringify(recs)) ELSE storage[k]]

\* A variant of EffectWrites whose starting-capital effect writes under the
\* records key.
EffectWritesCapitalToRecordsKey(storage, due, recs, capital) ==
  [k \in DOMAIN storage |->
     IF k = STORAGE_KEY /\ CAPITAL_KEY \in due THEN Item(<<StringOf(capital)>>)
     ELSE IF k = STORAGE_KEY /\ k \in due THEN Item(JSONStringify(recs))
     ELSE storage[k]]

\* The two effects' writes: setItem(STORAGE_KEY, JSON.stringify(records)) and
\* setItem("starting-capital", String(startingCapital)).
EffectWrites(storage, due, recs, capital) ==
  [k \in DOMAIN storage |->
     IF k = STORAGE_KEY /\ k \in due THEN Item(JSONStringify(recs))
     ELSE IF k = CAPITAL_KEY /\ k \in due THEN Item(StringOf(capital))
     ELSE storage[k]]

(***************************************************************************)
(* The basic screen (src/src/App.tsx): state [tp, sl, records, pending,    *)
(* crashed, csv].                                                          *)
(***************************************************************************)
BasicLoadRecords(storage) ==
  LET stored == storage[STORAGE_KEY]
  IN  IF Truthy(stored) THEN JSONParse(stored.value)
      ELSE [ok |-> TRUE, value |-> <<>>, next |-> 0]

BasicMount(storage) ==
  LET Rendered(loaded) ==
        [tp |-> <<>>, sl |-> <<>>,
         records |-> IF loaded.ok THEN loaded.value ELSE <<>>,
         pending |-> loaded.ok, crashed |-> ~loaded.ok, csv |-> <<>>]
  IN  CHOOSE b \in {Rendered(loaded) : loaded \in {BasicLoadRecords(storage)}} : TRUE

\* The screen takes no event while an effect is due or nothing is rendered.
BasicReady(b) == ~b.crashed /\ ~b.pending

BasicIdle(b) == [b EXCEPT !.csv = <<>>]

BasicSetTp(b, v) == IF BasicReady(b) THEN [b EXCEPT !.tp = v, !.csv = <<>>] ELSE BasicIdle(b)

BasicSetSl(b, v) == IF BasicReady(b) THEN [b EXCEPT !.sl = v, !.csv = <<>>] ELSE BasicIdle(b)

BasicNewRecord(decision, tpText, slText, id, timestamp) ==
  [id |-> Num(id), decision |-> decision, tp |-> NumberOf(tpText),
   sl |-> NumberOf(slText), timestamp |-> Num(timestamp)]

BasicHandleDecision(b, decision, id, timestamp) ==
  IF BasicReady(b) /\ b.tp # <<>> /\ b.sl # <<>>
  THEN [b EXCEPT !.records = Append(@, BasicNewRecord(decision, b.tp, b.sl, id, timestamp)),
                 !.tp = <<>>, !.sl = <<>>, !.pending = TRUE, !.csv = <<>>]
  ELSE BasicIdle(b)

BasicClear(b) ==
  IF BasicReady(b)
  THEN [b EXCEPT !.records = <<>>, !.tp = <<>>, !.sl = <<>>, !.pending = TRUE, !.csv = <<>>]
  ELSE BasicIdle(b)

BasicDeleteLast(b) ==
  IF BasicReady(b) /\ Len(b.records) # 0 /\ Len(b.records) > 0
  THEN [b EXCEPT !.records = SubSeq(@, 1, Len(@) - 1), !.pending = TRUE, !.csv = <<>>]
  ELSE BasicIdle(b)

\* records.filter((r) => r.decision === "Yes").length
BasicYesDecisions(b) == Len(SelectSeq(b.records, LAMBDA r : r.decision = "Yes"))

\* records.filter((r) => r.decision === "No").length
BasicNoDecisions(b) == Len(SelectSeq(b.records, LAMBDA r : r.decision = "No"))

BasicRunEffects(b) == [b EXCEPT !.pending = FALSE, !.csv = <<>>]

BasicEffectWrites(storage, b) ==
  IF b.pending THEN [storage EXCEPT ![STORAGE_KEY] = Item(JSONStringify(b.records))]
  ELSE storage

(***************************************************************************)
(* exportData: the CSV text, as tokens (fields, "," and "\n").             *)
(***************************************************************************)
Pad(n, w) == LET t == NatToText(n) IN (IF Len(t) < w THEN Zeros(w - Len(t)) ELSE <<>>) \o t

\* new Date(t).toISOString() of a finite t >= 0, in ms since the epoch.
ToISOString(t) ==
  LET ms == t.n \div t.d
      days == ms \div 86400000
      rest == ms % 86400000
      z == days + 719468
      era == z \div 146097
      doe == z - era * 146097
      yoe == (doe - doe \div 1460 + doe \div 36524 - doe \div 146096) \div 365
      doy == doe - (365 * yoe + yoe \div 4 - yoe \div 100)
      mp == (5 * doy + 2) \div 153
      day == doy - (153 * mp + 2) \div 5 + 1
      month == IF mp < 10 THEN mp + 3 ELSE mp - 9
      year == yoe + era * 400 + (IF month <= 2 THEN 1 ELSE 0)
  IN  Pad(year, 4) \o <<"-">> \o Pad(month, 2) \o <<"-">> \o Pad(day, 2) \o <<"T">>
        \o Pad(rest \div 3600000, 2) \o <<":">> \o Pad((rest \div 60000) % 60, 2)
        \o <<":">> \o Pad((rest \div 1000) % 60, 2) \o <<".">> \o Pad(rest % 1000, 3)
        \o <<"Z">>

CSVHeader == <<"timestamp,decision,tp,sl,result">>

\* A variant of Result that does not negate the stop loss.
ResultUnsigned(r) == IF r.decision = "Yes" THEN r.tp ELSE r.sl

\* r.decision === "Yes" ? r.tp : -r.sl
Result(r) == IF r.decision = "Yes" THEN r.tp ELSE Neg(r.sl)

\* `${date},${r.decision},${r.tp},${r.sl},${result}`
ExportRow(r) ==
  << ToISOString(r.timestamp), <<",">>, <<r.decision>>, <<",">>, StringOf(r.tp),
     <<",">>, StringOf(r.sl), <<",">>, StringOf(Result(r)) >>

RECURSIVE ExportRows(_)
ExportRows(rs) ==
  IF rs = <<>> THEN <<>>
  ELSE << <<"\n">> >> \o ExportRow(rs[1]) \o ExportRows(Tail(rs))

\* [header, ...records.map(row)].join("\n")
ExportCsv(rs) == <<CSVHeader>> \o ExportRows(rs)

BasicResult(r) == IF r.decision = "Yes" THEN r.tp ELSE Neg(r.sl)

BasicExportRow(r) ==
  << ToISOString(r.timestamp), <<",">>, <<r.decision>>, <<",">>, StringOf(r.tp),
     <<",">>, StringOf(r.sl), <<",">>, StringOf(BasicResult(r)) >>

RECURSIVE BasicExportRows(_)
BasicExportRows(rs) ==
  IF rs = <<>> THEN <<>>
  ELSE << <<"\n">> >> \o BasicExportRow(rs[1]) \o BasicExportRows(Tail(rs))

BasicExportData(b) ==
  IF BasicReady(b) /\ Len(b.records) # 0
  THEN [b EXCEPT !.csv = <<CSVHeader>> \o BasicExportRows(b.records)]
  ELSE BasicIdle(b)

(***************************************************************************)
(* The steps.  One user event is delivered to both screens; React runs the *)
(* effects of a commit before it handles the next event.                   *)
(***************************************************************************)
Ready == ~crashed /\ pendingEffects = {}

Init ==
  \E rs \in StoredRecords, c \in StoredCapital :
    LET store == (STORAGE_KEY :> rs) @@ (CAPITAL_KEY :> c)
        m == Mount(store)
    IN  /\ localStorage = store
        /\ basicStorage = (STORAGE_KEY :> rs)
        /\ tp = m.tp
        /\ sl = m.sl
        /\ showAnalytics = m.showAnalytics
        /\ startingCapital = m.startingCapital
        /\ records = m.records
        /\ pendingEffects = m.pendingEffects
        /\ crashed = m.crashed
        /\ basic = BasicMount((STORAGE_KEY :> rs))
        /\ csv = <<>>
        /\ now = 0

\* onChange of the TP input
SetTp(v) ==
  /\ Ready
  /\ tp' = v
  /\ basic' = BasicSetTp(basic, v)
  /\ csv' = <<>>
  /\ UNCHANGED <<sl, showAnalytics, startingCapital, records, pendingEffects,
                 crashed, localStorage, basicStorage, now>>

\* onChange of the SL input
SetSl(v) ==
  /\ Ready
  /\ sl' = v
  /\ basic' = BasicSetSl(basic, v)
  /\ csv' = <<>>
  /\ UNCHANGED <<tp, showAnalytics, startingCapital, records, pendingEffects,
                 crashed, localStorage, basicStorage, now>>

\* A variant of AppendRecord that puts the new record first: [newRecord, ...prev].
PrependRecord(prev, newRecord) == <<newRecord>> \o prev

\* [...prev, newRecord]
AppendRecord(prev, newRecord) == Append(prev, newRecord)

\* A variant of Disabled that disables the buttons only when both inputs are
\* empty.
DisabledWhenBothEmpty(tpText, slText) == tpText = <<>> /\ slText = <<>>

\* disabled={!tp || !sl} of the Yes and No buttons: the empty text is the
\* only text that is falsy.
Disabled(tpText, slText) == tpText = <<>> \/ slText = <<>>

\* The Yes and No buttons: handleDecision.  Date.now() is read twice; the
\* clock may have advanced before each reading.
HandleDecision(decision) ==
  /\ Ready
  /\ ~Disabled(tp, sl)
  /\ ~Disabled(basic.tp, basic.sl)
  /\ Len(records) < MaxRecords
  /\ \E id \in {now, now + 1} : \E timestamp \in {id, id + 1} :
       /\ timestamp <= MaxClock
       /\ records' = AppendRecord(records, NewRecord(decision, tp, sl, id, timestamp))
       /\ basic' = BasicHandleDecision(basic, decision, id, timestamp)
       /\ now' = timestamp
  /\ tp' = <<>>
  /\ sl' = <<>>
  /\ pendingEffects' = {STORAGE_KEY}
  /\ csv' = <<>>
  /\ UNCHANGED <<showAnalytics, startingCapital, crashed, localStorage, basicStorage>>

\* The Clear button; the analytics screen asks window.confirm first.
Clear(confirm) ==
  /\ Ready
  /\ IF confirm
     THEN /\ records' = <<>>
          /\ tp' = <<>>
          /\ sl' = <<>>
          /\ pendingEffects' = {STORAGE_KEY}
          /\ basic' = BasicClear(basic)
     ELSE /\ UNCHANGED <<records, tp, sl, pendingEffects>>
          /\ basic' = BasicIdle(basic)
  /\ csv' = <<>>
  /\ UNCHANGED <<showAnalytics, startingCapital, crashed, localStorage, basicStorage, now>>

\* The Delete Last button (disabled={records.length === 0}); the analytics
\* screen asks window.confirm first.
DeleteLast(confirm) ==
  /\ Ready
  /\ Len(records) # 0
  /\ records' = DeleteLastOnClick(records, confirm)
  /\ IF confirm
     THEN /\ pendingEffects' = {STORAGE_KEY}
          /\ basic' = BasicDeleteLast(basic)
     ELSE /\ UNCHANGED pendingEffects
          /\ basic' = BasicIdle(basic)
  /\ csv' = <<>>
  /\ UNCHANGED <<tp, sl, showAnalytics, startingCapital, crashed, localStorage,
                 basicStorage, now>>

\* The Analytics button (disabled={records.length === 0})
OpenAnalytics ==
  /\ Ready
  /\ Len(records) # 0
  /\ showAnalytics' = TRUE
  /\ basic' = BasicIdle(basic)
  /\ csv' = <<>>
  /\ UNCHANGED <<tp, sl, startingCapital, records, pendingEffects, crashed,
                 localStorage, basicStorage, now>>

\* The dialog's close button and its backdrop
CloseAnalytics ==
  /\ Ready
  /\ showAnalytics
  /\ showAnalytics' = FALSE
  /\ basic' = BasicIdle(basic)
  /\ csv' = <<>>
  /\ UNCHANGED <<tp, sl, startingCapital, records, pendingEffects, crashed,
                 localStorage, basicStorage, now>>

\* onChange of the Starting Capital input, which the dialog holds; the effect
\* is due when the value changed (Object.is).
ChangeStartingCapital(v) ==
  /\ Ready
  /\ showAnalytics
  /\ startingCapital' = NumberOf(v)
  /\ pendingEffects' = IF NumberOf(v) # startingCapital THEN {CAPITAL_KEY} ELSE {}
  /\ basic' = BasicIdle(basic)
  /\ csv' = <<>>
  /\ UNCHANGED <<tp, sl, showAnalytics, records, crashed, localStorage, basicStorage, now>>

\* The Export button (disabled={records.length === 0}): exportData
ExportData ==
  /\ Ready
  /\ Len(records) # 0
  /\ csv' = ExportCsv(records)
  /\ basic' = BasicExportData(basic)
  /\ UNCHANGED <<tp, sl, showAnalytics, startingCapital, records, pendingEffects,
                 crashed, localStorage, basicStorage, now>>

\* The effects due after a commit run.
RunEffects ==
  /\ ~crashed
  /\ pendingEffects # {} \/ basic.pending
  /\ localStorage' = EffectWrites(localStorage, pendingEffects, records, startingCapital)
  /\ pendingEffects' = {}
  /\ basicStorage' = BasicEffectWrites(basicStorage, basic)
  /\ basic' = BasicRunEffects(basic)
  /\ csv' = <<>>
  /\ UNCHANGED <<tp, sl, showAnalytics, startingCapital, records, crashed, now>>

\* The page is loaded again: the initialisers run against the store.
Reload ==
  /\ \E m \in {Mount(localStorage)} :
         /\ tp' = m.tp
         /\ sl' = m.sl
         /\ showAnalytics' = m.showAnalytics
         /\ startingCapital' = m.startingCapital
         /\ records' = m.records
         /\ pendingEffects' = m.pendingEffects
         /\ crashed' = m.crashed
  /\ basic' = BasicMount(basicStorage)
  /\ csv' = <<>>
  /\ UNCHANGED <<localStorage, basicStorage, now>>

Next ==
  \/ \E v \in TpTexts : SetTp(v)
  \/ \E v \in SlTexts : SetSl(v)
  \/ \E decision \in {"Yes", "No"} : HandleDecision(decision)
  \/ \E confirm \in BOOLEAN : Clear(confirm)
  \/ \E confirm \in BOOLEAN : DeleteLast(confirm)
  \/ OpenAnalytics
  \/ CloseAnalytics
  \/ \E v \in CapitalTexts : ChangeStartingCapital(v)
  \/ ExportData
  \/ RunEffects
  \/ Reload

Spec == Init /\ [][Next]_vars

\* The screens started over a store that holds neither entry.
FreshInit == Init /\ localStorage = (STORAGE_KEY :> Absent) @@ (CAPITAL_KEY :> Absent)

SpecFresh == FreshInit /\ [][Next]_vars

(***************************************************************************)
(* The analytics calculations of the analytics screen, computed on every   *)
(* render from records and startingCapital.  The equity curve's date       *)
(* (toLocaleDateString, which depends on the host's locale) is left out.   *)
(***************************************************************************)
\* Number(x.toFixed(2))
Round2(x) == NumberOf(ToFixed(x, 2))

\* A variant of EquityFrom that carries the rounded balance forward.
RECURSIVE EquityFromRounded(_, _, _)
EquityFromRounded(rs, index, balance) ==
  IF rs = <<>> THEN <<>>
  ELSE LET result == IF rs[1].decision = "Yes" THEN rs[1].tp ELSE Neg(rs[1].sl)
           b == NumberOf(ToFixed(Add(balance, result), 2))
       IN  << [trade |-> index + 1, balance |-> b, result |-> result] >>
             \o EquityFromRounded(Tail(rs), index + 1, b)

RECURSIVE EquityFrom(_, _, _)
EquityFrom(rs, index, balance) ==
  IF rs = <<>> THEN <<>>
  ELSE LET result == Result(rs[1])
           b == Add(balance, result)
       IN  << [trade |-> index + 1, balance |-> Round2(b), result |-> result] >>
             \o EquityFrom(Tail(rs), index + 1, b)

GetEquityCurve == EquityFrom(records, 0, startingCapital)

RECURSIVE DrawdownFrom(_, _, _, _, _)
DrawdownFrom(rs, index, balance, peak, maxDrawdown) ==
  IF rs = <<>> THEN [data |-> <<>>, maxDrawdown |-> Round2(maxDrawdown)]
  ELSE LET b == Add(balance, Result(rs[1]))
           p == IF Gt(b, peak) THEN b ELSE peak
           currentDrawdown == Mul(Div(Sub(p, b), p), Num(100))
           rest == DrawdownFrom(Tail(rs), index + 1, b, p,
                                MathMax(maxDrawdown, currentDrawdown))
       IN  [data |-> << [trade |-> index + 1, drawdown |-> Round2(currentDrawdown),
                         balance |-> Round2(b)] >> \o rest.data,
            maxDrawdown |-> rest.maxDrawdown]

GetDrawdownData == DrawdownFrom(records, 0, startingCapital, startingCapital, Num(0))

RECURSIVE SumTp(_)
SumTp(rs) == IF rs = <<>> THEN Num(0) ELSE Add(SumTp(SubSeq(rs, 1, Len(rs) - 1)), rs[Len(rs)].tp)

RECURSIVE SumSl(_)
SumSl(rs) == IF rs = <<>> THEN Num(0) ELSE Add(SumSl(SubSeq(rs, 1, Len(rs) - 1)), rs[Len(rs)].sl)

IsWin(r) == r.decision = "Yes"

IsLoss(r) == r.decision = "No"

GetWinLossDistribution ==
  LET wins == SelectSeq(records, IsWin)
      losses == SelectSeq(records, IsLoss)
  IN  << [name |-> "Wins", value |-> Len(wins), amount |-> SumTp(wins)],
         [name |-> "Losses", value |-> Len(losses), amount |-> SumSl(losses)] >>

(***************************************************************************)
(* Monthly performance.  A timestamp is shown in the time zone of the      *)
(* browser, which is tz minutes behind UTC (Date.getTimezoneOffset()).     *)
(***************************************************************************)
TimezoneOffsets == {0, 300}

MonthNames ==
  << <<"J", "a", "n">>, <<"F", "e", "b">>, <<"M", "a", "r">>, <<"A", "p", "r">>,
     <<"M", "a", "y">>, <<"J", "u", "n">>, <<"J", "u", "l">>, <<"A", "u", "g">>,
     <<"S", "e", "p">>, <<"O", "c", "t">>, <<"N", "o", "v">>, <<"D", "e", "c">> >>

InvalidDateText == <<"I", "n", "v", "a", "l", "i", "d", " ", "D", "a", "t", "e">>

\* The Gregorian year and month of the day that is `days` days after
\* 1 January 1970.
CivilFromDays(days) ==
  LET z == days + 719468
      era == z \div 146097
      doe == z - era * 146097
      yoe == (doe - doe \div 1460 + doe \div 36524 - doe \div 146096) \div 365
      doy == doe - (365 * yoe + yoe \div 4 - yoe \div 100)
      mp == (5 * doy + 2) \div 153
      month == IF mp < 10 THEN mp + 3 ELSE mp - 9
  IN  [year |-> yoe + era * 400 + (IF month <= 2 THEN 1 ELSE 0), month |-> month]

\* new Date(timestamp).toLocaleDateString("en-US", {month: "short", year: "numeric"})
MonthOf(timestamp, tz) ==
  IF ~IsFinite(timestamp) THEN InvalidDateText
  ELSE LET ms == (IF timestamp.n < 0 THEN -1 ELSE 1) * (Abs(timestamp.n) \div timestamp.d)
           date == CivilFromDays((ms - tz * 60000) \div 86400000)
       IN  MonthNames[date.month] \o <<" ">> \o NatToText(date.year)

\* A variant of MonthlyAdd that keeps the last result of a month.
MonthlySet(monthlyData, month, result) ==
  IF \E i \in 1..Len(monthlyData) : monthlyData[i].month = month
  THEN [i \in 1..Len(monthlyData) |->
          IF monthlyData[i].month = month
          THEN [month |-> month, profit |-> result]
          ELSE monthlyData[i]]
  ELSE Append(monthlyData, [month |-> month, profit |-> result])

\* monthlyData[month] = (monthlyData[month] || 0) + result, the keys of the
\* object kept in the order of their insertion.
MonthlyAdd(monthlyData, month, result) ==
  IF \E i \in 1..Len(monthlyData) : monthlyData[i].month = month
  THEN [i \in 1..Len(monthlyData) |->
          IF monthlyData[i].month = month
          THEN LET profit == monthlyData[i].profit
               IN  [month |-> month,
                    profit |-> Add(IF IsNaN(profit) THEN Num(0) ELSE profit, result)]
          ELSE monthlyData[i]]
  ELSE Append(monthlyData, [month |-> month, profit |-> Add(Num(0), result)])

\* records.forEach(...): monthlyData after all of rs
RECURSIVE MonthlyData(_, _)
MonthlyData(rs, tz) ==
  IF rs = <<>> THEN <<>>
  ELSE MonthlyAdd(MonthlyData(SubSeq(rs, 1, Len(rs) - 1), tz),
                  MonthOf(rs[Len(rs)].timestamp, tz), Result(rs[Len(rs)]))

\* Object.entries(monthlyData).map(...)
GetMonthlyPerformance(tz) ==
  LET monthlyData == MonthlyData(records, tz)
  IN  [i \in 1..Len(monthlyData) |->
         [month |-> monthlyData[i].month, profit |-> Round2(monthlyData[i].profit)]]

(***************************************************************************)
(* What the screens show of the ledger: the Statistics panel of both       *)
(* screens and the Detailed Statistics of the analytics dialog, as the     *)
(* texts rendered (<<>> where nothing is rendered).                        *)
(***************************************************************************)
\* A variant of StatisticsShown that renders the panel for every ledger.
StatisticsAlwaysShown(rs) == TRUE

\* {records.length > 0 && ( ... Statistics ... )}
StatisticsShown(rs) == Len(rs) > 0

\* records.reduce((sum, r) => sum + (r.decision === "Yes" ? r.tp : -r.sl), 0)
RECURSIVE TotalNet(_)
TotalNet(rs) ==
  IF rs = <<>> THEN Num(0)
  ELSE Add(TotalNet(SubSeq(rs, 1, Len(rs) - 1)), Result(rs[Len(rs)]))

\* Total Net: "+" when >= 0, then the number
TotalNetText(rs) ==
  (IF Ge(TotalNet(rs), Num(0)) THEN <<"+">> ELSE <<>>) \o StringOf(TotalNet(rs))

\* A variant of WinRateText that counts the No decisions.
LossRateText(rs) ==
  ToFixed(Mul(Div(Num(Len(SelectSeq(rs, IsLoss))), Num(Len(rs))), Num(100)), 1)
    \o <<"%">>

\* A variant of WinRate that counts the No decisions.
LossRate(rs) == Mul(Div(Num(Len(SelectSeq(rs, IsLoss))), Num(Len(rs))), Num(100))

\* (records.filter((r) => r.decision === "Yes").length / records.length) * 100
WinRate(rs) == Mul(Div(Num(Len(SelectSeq(rs, IsWin))), Num(Len(rs))), Num(100))

\* Win Rate: (...).toFixed(1) and "%"
WinRateText(rs) == ToFixed(WinRate(rs), 1) \o <<"%">>

\* records.reduce(...) / records.length
AvgNet(rs) == Div(TotalNet(rs), Num(Len(rs)))

\* Avg Net: (...).toFixed(2)
AvgNetText(rs) == ToFixed(AvgNet(rs), 2)

\* The Statistics panel of the analytics screen
StatisticsPanel(rs) ==
  IF StatisticsShown(rs)
  THEN [totalTrades |-> NatToText(Len(rs)),
        yesDecisions |-> NatToText(Len(SelectSeq(rs, IsWin))),
        noDecisions |-> NatToText(Len(SelectSeq(rs, IsLoss))),
        totalNet |-> TotalNetText(rs),
        winRate |-> WinRateText(rs),
        avgNet |-> AvgNetText(rs)]
  ELSE [totalTrades |-> <<>>, yesDecisions |-> <<>>, noDecisions |-> <<>>,
        totalNet |-> <<>>, winRate |-> <<>>, avgNet |-> <<>>]

\* The text "&infin;" (U+221E), one character
InfinitySign == <<"U+221E">>

NotAvailable == <<"N", "/", "A">>

\* Profit Factor: winLossData[1]?.amount > 0 ? (wins / losses).toFixed(2) : U+221E
ProfitFactorText ==
  LET winLossData == GetWinLossDistribution
  IN  IF Gt(winLossData[2].amount, Num(0))
      THEN ToFixed(Div(winLossData[1].amount, winLossData[2].amount), 2)
      ELSE InfinitySign

\* Risk/Reward Ratio: both counts > 0 ? (avg win / avg loss).toFixed(2) : "N/A"
RiskRewardText ==
  LET winLossData == GetWinLossDistribution
  IN  IF winLossData[2].value > 0 /\ winLossData[1].value > 0
      THEN ToFixed(Div(Div(winLossData[1].amount, Num(winLossData[1].value)),
                       Div(winLossData[2].amount, Num(winLossData[2].value))), 2)
      ELSE NotAvailable

\* The Detailed Statistics, rendered while the dialog is open
DetailedStatistics ==
  IF showAnalytics
  THEN [profitFactor |-> ProfitFactorText, riskReward |-> RiskRewardText]
  ELSE [profitFactor |-> <<>>, riskReward |-> <<>>]

\* The basic screen: {records.length > 0 && ( ... Statistics ... )}
BasicStatisticsShown(b) == Len(b.records) > 0

RECURSIVE BasicTotalNet(_)
BasicTotalNet(rs) ==
  IF rs = <<>> THEN Num(0)
  ELSE Add(BasicTotalNet(SubSeq(rs, 1, Len(rs) - 1)), BasicResult(rs[Len(rs)]))

BasicTotalNetText(rs) ==
  (IF Ge(BasicTotalNet(rs), Num(0)) THEN <<"+">> ELSE <<>>) \o StringOf(BasicTotalNet(rs))

BasicWinRate(rs) ==
  Mul(Div(Num(Len(SelectSeq(rs, LAMBDA r : r.decision = "Yes"))), Num(Len(rs))),
      Num(100))

BasicWinRateText(rs) == ToFixed(BasicWinRate(rs), 1) \o <<"%">>

BasicAvgNet(rs) == Div(BasicTotalNet(rs), Num(Len(rs)))

BasicAvgNetText(rs) == ToFixed(BasicAvgNet(rs), 2)

\* A variant of BasicStatisticsPanel that shows the loss rate as the win rate.
BasicStatisticsPanelLossRate(b) ==
  IF BasicStatisticsShown(b)
  THEN [totalTrades |-> NatToText(Len(b.records)),
        yesDecisions |-> NatToText(BasicYesDecisions(b)),
        noDecisions |-> NatToText(BasicNoDecisions(b)),
        totalNet |-> BasicTotalNetText(b.records),
        winRate |-> LossRateText(b.records),
        avgNet |-> BasicAvgNetText(b.records)]
  ELSE [totalTrades |-> <<>>, yesDecisions |-> <<>>, noDecisions |-> <<>>,
        totalNet |-> <<>>, winRate |-> <<>>, avgNet |-> <<>>]

\* The Statistics panel of the basic screen
BasicStatisticsPanel(b) ==
  IF BasicStatisticsShown(b)
  THEN [totalTrades |-> NatToText(Len(b.records)),
        yesDecisions |-> NatToText(BasicYesDecisions(b)),
        noDecisions |-> NatToText(BasicNoDecisions(b)),
        totalNet |-> BasicTotalNetText(b.records),
        winRate |-> BasicWinRateText(b.records),
        avgNet |-> BasicAvgNetText(b.records)]
  ELSE [totalTrades |-> <<>>, yesDecisions |-> <<>>, noDecisions |-> <<>>,
        totalNet |-> <<>>, winRate |-> <<>>, avgNet |-> <<>>]

(***************************************************************************)
(* The analytics over every ledger that appends build: the screen at rest  *)
(* (effects run, store written) over such a ledger, then the dialog, the   *)
(* starting capital and the export.                                        *)
(***************************************************************************)
AnalyticsTpTexts == {<<"5", "0">>, <<"0", ".", "0", "0", "4">>}

AnalyticsSlTexts == {<<"2", "0">>, <<"0">>}

AnalyticsCapitalTexts == {<<"0">>, <<"1", "0", "0">>}

FiveHours == 5 * 3600000

\* Date.now() at the i-th append: a clock that ticks, one that is five hours
\* on at every append, and one that was set back five hours after the first.
ClockReadings ==
  { [i \in 1..MaxRecords |-> i - 1],
    [i \in 1..MaxRecords |-> (i - 1) * FiveHours],
    [i \in 1..MaxRecords |-> IF i = 1 THEN FiveHours ELSE i - 2] }

\* The ledgers of k appends, the i-th made at clock reading clock[i].
RECURSIVE LedgersOfLength(_, _)
LedgersOfLength(k, clock) ==
  IF k = 0 THEN {<<>>}
  ELSE {AppendRecord(l, NewRecord(decision, t, s, clock[k], clock[k])) :
          l \in LedgersOfLength(k - 1, clock), decision \in {"Yes", "No"},
          t \in AnalyticsTpTexts, s \in AnalyticsSlTexts}

\* Yes with tp 50, No with sl 20, Yes with tp 30
ScenarioLedger ==
  AppendRecord(AppendRecord(AppendRecord(<<>>,
    NewRecord("Yes", <<"5", "0">>, <<"2", "0">>, 0, 0)),
    NewRecord("No", <<"5", "0">>, <<"2", "0">>, 1, 1)),
    NewRecord("Yes", <<"3", "0">>, <<"2", "0">>, 2, 2))

\* Three appends, the clock set forward five hours for the second only
ThereAndBackLedger ==
  AppendRecord(AppendRecord(AppendRecord(<<>>,
    NewRecord("Yes", <<"5", "0">>, <<"2", "0">>, 0, 0)),
    NewRecord("No", <<"5", "0">>, <<"2", "0">>, FiveHours, FiveHours)),
    NewRecord("Yes", <<"0", ".", "0", "0", "4">>, <<"2", "0">>, 1, 1))

AppendedLedgers ==
  UNION {LedgersOfLength(k, clock) : k \in 0..MaxRecords, clock \in ClockReadings}
    \cup {ScenarioLedger, ThereAndBackLedger}

AnalyticsInit ==
  \E l \in AppendedLedgers :
    /\ records = l
    /\ startingCapital = Num(10000)
    /\ tp = <<>>
    /\ sl = <<>>
    /\ showAnalytics = FALSE
    /\ pendingEffects = {}
    /\ crashed = FALSE
    /\ csv = <<>>
    /\ localStorage = (STORAGE_KEY :> Item(JSONStringify(l)))
                        @@ (CAPITAL_KEY :> Item(StringOf(Num(10000))))
    /\ basic = [tp |-> <<>>, sl |-> <<>>, records |-> l, pending |-> FALSE,
                crashed |-> FALSE, csv |-> <<>>]
    /\ basicStorage = (STORAGE_KEY :> Item(JSONStringify(l)))
    /\ now = IF l = <<>> THEN 0 ELSE l[Len(l)].timestamp.n

AnalyticsNext ==
  \/ OpenAnalytics
  \/ CloseAnalytics
  \/ \E v \in AnalyticsCapitalTexts : ChangeStartingCapital(v)
  \/ ExportData
  \/ RunEffects

SpecAnalytics == AnalyticsInit /\ [][AnalyticsNext]_vars

(***************************************************************************)
(* Vocabulary of the properties.                                           *)
(***************************************************************************)
\* Both screens are at rest: rendered, and no effect is due.
Quiescent == Ready /\ BasicReady(basic)

\* The store holds what the memory holds.
Persisted ==
  /\ localStorage[STORAGE_KEY] = Item(JSONStringify(records))
  /\ localStorage[CAPITAL_KEY] = Item(StringOf(startingCapital))
  /\ basicStorage[STORAGE_KEY] = Item(JSONStringify(basic.records))

\* rs is the first Len(rs) records of old, unchanged and in order.
IsPrefix(rs, old) == Len(rs) <= Len(old) /\ \A i \in 1..Len(rs) : rs[i] = old[i]

\* A step that changes the ledger or the starting capital.
Mutation ==
  \/ \E decision \in {"Yes", "No"} : HandleDecision(decision)
  \/ Clear(TRUE)
  \/ DeleteLast(TRUE)
  \/ \E v \in CapitalTexts \cup AnalyticsCapitalTexts : ChangeStartingCapital(v)

\* +tp for a Yes record, -sl for a No record.
SignedResult(r) == IF r.decision = "Yes" THEN r.tp ELSE Sub(Num(0), r.sl)

\* The sum of SignedResult over the first k records.
RECURSIVE NetOfFirst(_, _)
NetOfFirst(rs, k) ==
  IF k = 0 THEN Num(0) ELSE Add(NetOfFirst(rs, k - 1), SignedResult(rs[k]))

\* The running balance never falls.
BalanceNonDecreasing ==
  \A k \in 1..Len(records) : Ge(NetOfFirst(records, k), NetOfFirst(records, k - 1))

\* A text cut at every token equal to sep.
RECURSIVE SplitOn(_, _)
SplitOn(ts, sep) ==
  LET at == {i \in 1..Len(ts) : ts[i] = sep}
  IN  IF at = {} THEN <<ts>>
      ELSE LET i == CHOOSE j \in at : \A k \in at : j <= k
           IN  <<SubSeq(ts, 1, i - 1)>> \o SplitOn(SubSeq(ts, i + 1, Len(ts)), sep)

\* A downloaded file is the header and one row per record of rs, each row the
\* record's decision, tp, sl and signed result after its timestamp.
IsExportOf(file, rs) ==
  LET lines == SplitOn(file, <<"\n">>)
  IN  /\ Len(lines) = Len(rs) + 1
      /\ lines[1] = << <<"timestamp,decision,tp,sl,result">> >>
      /\ \A i \in 1..Len(rs) :
           LET fields == SplitOn(lines[i + 1], <<",">>)
           IN  /\ Len(fields) = 5
               /\ \A f \in 1..5 : Len(fields[f]) = 1
               /\ fields[2][1] = <<rs[i].decision>>
               /\ NumberOf(fields[3][1]) = rs[i].tp
               /\ NumberOf(fields[4][1]) = rs[i].sl
               /\ NumberOf(fields[5][1]) = SignedResult(rs[i])

(***************************************************************************)
(* The properties.                                                         *)
(***************************************************************************)
\* C1: when the screens are at rest (every write has run), loading the page
\* again yields the same records, in the same order, and the same starting
\* capital, on both screens.
C1_RoundTrip ==
  [][(Quiescent /\ Reload) =>
       /\ ~crashed'
       /\ records' = records
       /\ startingCapital' = startingCapital
       /\ basic'.records = basic.records]_vars

\* C1 witness: the page was loaded again over a store holding two records
\* and a changed capital, and holds them again.
C1_Witness ==
  /\ pendingEffects = {STORAGE_KEY, CAPITAL_KEY}
  /\ Len(records) = 2
  /\ startingCapital = Num(0)
  /\ localStorage[STORAGE_KEY] = Item(JSONStringify(records))
  /\ localStorage[CAPITAL_KEY] = Item(<<"0">>)

\* C2 (as claimed): loading never raises, and an absent or malformed entry
\* is replaced by its default (no records, a capital of 10000).
C2_LoadNeverRaises ==
  LET r == localStorage[STORAGE_KEY]
      c == localStorage[CAPITAL_KEY]
      m == Mount(localStorage)
  IN  /\ ~m.crashed
      /\ (~r.present \/ ~JSONParse(r.value).ok) => m.records = <<>>
      /\ (~c.present \/ ~IsFinite(NumberOf(c.value))) => m.startingCapital = Num(10000)
      /\ ~BasicMount(basicStorage).crashed

\* C3: Delete Last on an empty ledger leaves it empty; on a ledger of n
\* records it leaves the first n - 1, unchanged and in order (both screens).
C3_RemoveLast ==
  [][/\ records = <<>> =>
          /\ DeleteLastOnClick(records, TRUE) = <<>>
          /\ BasicDeleteLast(basic).records = <<>>
     /\ DeleteLast(TRUE) =>
          /\ Len(records') = Len(records) - 1
          /\ IsPrefix(records', records)
          /\ Len(basic'.records) = Len(basic.records) - 1
          /\ IsPrefix(basic'.records, basic.records)]_vars

\* C3 witness: Delete Last has just removed the second of two records (the
\* store still holds both).
C3_Witness ==
  /\ Len(records) = 1
  /\ pendingEffects = {STORAGE_KEY}
  /\ localStorage[STORAGE_KEY].present
  /\ JSONParse(localStorage[STORAGE_KEY].value).ok
  /\ Len(JSONParse(localStorage[STORAGE_KEY].value).value) = 2
  /\ records[1] = JSONParse(localStorage[STORAGE_KEY].value).value[1]

\* C4: Yes or No on a ledger of n records gives n + 1 records, the first n
\* unchanged and in order, the last holding the decision, the numbers typed
\* as tp and sl and an id and a timestamp read from the clock; the write of
\* the whole ledger is then due, and the step that runs it writes all of it.
C4_Append ==
  [][/\ \A decision \in {"Yes", "No"} : HandleDecision(decision) =>
          LET last == records'[Len(records')]
          IN  /\ Len(records') = Len(records) + 1
              /\ IsPrefix(records, records')
              /\ last.decision = decision
              /\ tp = <<"5", "0">> => last.tp = Num(50)
              /\ sl = <<"2", "0">> => last.sl = Num(20)
              /\ last.tp = NumberOf(tp) /\ last.sl = NumberOf(sl)
              /\ last.id.d = 1 /\ last.id.n \in now..now'
              /\ last.timestamp.d = 1 /\ last.timestamp.n \in last.id.n..now'
              /\ STORAGE_KEY \in pendingEffects'
              /\ basic'.records = records' /\ basic'.pending
     /\ (RunEffects /\ STORAGE_KEY \in pendingEffects) =>
          localStorage'[STORAGE_KEY] = Item(JSONStringify(records))
     /\ (RunEffects /\ basic.pending) =>
          basicStorage'[STORAGE_KEY] = Item(JSONStringify(basic.records))]_vars

\* C4 witness: a No has just been appended to a ledger of one record, the
\* inputs are empty again and the write is due.
C4_Witness ==
  /\ Len(records) = 2
  /\ records[2].decision = "No"
  /\ records[2].tp = Num(50)
  /\ tp = <<>>
  /\ pendingEffects = {STORAGE_KEY}
  /\ localStorage[STORAGE_KEY] = Item(JSONStringify(SubSeq(records, 1, 1)))

\* C5 (as claimed): in a ledger built from an empty one, the ids are
\* strictly increasing in sequence order, hence pairwise distinct, also when
\* two appends read the same clock value.
C5_IdsStrictlyIncreasing ==
  \A i \in 1..Len(records) : \A j \in 1..Len(records) :
    i < j => Gt(records[j].id, records[i].id)

\* C6: a mutation is accepted only when the store holds what the memory
\* holds; after it the write of the field it changed is due and nothing but
\* that write (or loading the page again) happens next; and whenever the
\* screens are at rest the store holds the JSON of the records and the
\* string of the capital.
C6_WriteFollowsMutation ==
  /\ [](Quiescent => Persisted)
  /\ [][/\ (pendingEffects # {} \/ basic.pending) => (RunEffects \/ Reload)
        /\ LET mutation == Mutation
           IN  /\ mutation => Persisted
               /\ (mutation /\ records' # records) => STORAGE_KEY \in pendingEffects'
               /\ (mutation /\ startingCapital' # startingCapital) =>
                    CAPITAL_KEY \in pendingEffects'
               /\ (mutation /\ basic'.records # basic.records) => basic'.pending]_vars

\* C6 witness: at rest after two appends and a change of the capital, with
\* the dialog open.
C6_Witness ==
  /\ Quiescent
  /\ showAnalytics
  /\ Len(records) = 2
  /\ startingCapital = Num(0)
  /\ Persisted

\* C7 (as claimed): the equity curve has one entry per record and its i-th
\* balance is the starting capital plus the sum of the signed results of
\* records 1..i.
C7_EquityIsExactSum ==
  /\ Len(GetEquityCurve) = Len(records)
  /\ \A i \in 1..Len(records) :
       GetEquityCurve[i].balance = Add(startingCapital, NetOfFirst(records, i))

\* C7 (amended): the equity curve has one entry per record (none for an
\* empty ledger) and its i-th balance is the starting capital plus the sum of
\* the signed results of records 1..i, rounded to two decimals; so is its
\* final balance.
C7_EquityIsRoundedSum ==
  /\ Len(GetEquityCurve) = Len(records)
  /\ \A i \in 1..Len(records) :
       LET exact == Add(startingCapital, NetOfFirst(records, i))
           shown == GetEquityCurve[i].balance
       IN  /\ IsFinite(shown)
           /\ (100 * shown.n) % shown.d = 0
           /\ Ge(Add(shown, Rat(1, 200)), exact)
           /\ Ge(Add(exact, Rat(1, 200)), shown)
           /\ GetEquityCurve[i].trade = i
           /\ GetEquityCurve[i].result = SignedResult(records[i])

\* C7 witness: a ledger of two records over a capital of 100 whose exact
\* balance has more than two decimals.
C7_Witness ==
  /\ Len(records) = 2
  /\ startingCapital = Num(100)
  /\ GetEquityCurve[2].balance # Add(startingCapital, NetOfFirst(records, 2))

\* C8 (as claimed): the maximum drawdown is a number >= 0, and is 0 when the
\* running balance never falls.
C8_MaxDrawdownNonNegative ==
  /\ IsFinite(GetDrawdownData.maxDrawdown)
  /\ Ge(GetDrawdownData.maxDrawdown, Num(0))
  /\ BalanceNonDecreasing => GetDrawdownData.maxDrawdown = Num(0)

\* C9 (as claimed): the win count plus the loss count is the record count,
\* for every ledger the screens hold.
C9_WinsPlusLossesIsTotal ==
  /\ GetWinLossDistribution[1].value + GetWinLossDistribution[2].value = Len(records)
  /\ BasicYesDecisions(basic) + BasicNoDecisions(basic) = Len(basic.records)

\* C10: the export is the header and one row per record in order, each row
\* the record's decision, tp and sl, and tp or minus sl as the result; the
\* export changes neither the ledger nor the store.
C10_Export ==
  [][ExportData =>
       /\ IsExportOf(csv', records)
       /\ IsExportOf(basic'.csv, basic.records)
       /\ UNCHANGED <<records, startingCapital, localStorage, basicStorage>>
       /\ basic'.records = basic.records]_vars

\* C10 witness: a ledger of a Yes and a No has just been exported.
C10_Witness ==
  /\ csv # <<>>
  /\ basic.csv # <<>>
  /\ Len(records) = 2
  /\ records[1].decision = "Yes"
  /\ records[2].decision = "No"
  /\ records[2].sl = Num(20)

\* new is old, old with one record appended, old without its last record, or
\* the empty ledger.
IsLedgerStep(old, new) ==
  \/ new = old
  \/ Len(new) = Len(old) + 1 /\ IsPrefix(old, new)
  \/ Len(new) = Len(old) - 1 /\ IsPrefix(new, old)
  \/ new = <<>>

\* C11: every step leaves the ledger as it was, appends exactly one record at
\* its end, drops its last record or empties it, on both screens; no step
\* changes, reorders or removes a record in the middle.  (Loading the page
\* again while a write is still due brings back the stored ledger and is the
\* one step left out.)
C11_RecordsNeverMutated ==
  [][\/ IsLedgerStep(records, records') /\ IsLedgerStep(basic.records, basic'.records)
     \/ Reload /\ ~Quiescent]_vars

\* C11 witness: a record was appended after another one and the first is as
\* it was stored.
C11_Witness ==
  /\ Len(records) = 2
  /\ pendingEffects = {STORAGE_KEY}
  /\ records[1].decision = "Yes"
  /\ records[2].decision = "No"
  /\ records[2].id # records[1].id
  /\ localStorage[STORAGE_KEY] = Item(JSONStringify(<<records[1]>>))

\* C12: changing the starting capital leaves the ledger and the stored
\* trade-tracker-records entry as they were, also when its write runs; Yes,
\* No, Delete Last and Clear leave the starting capital and the stored
\* starting-capital entry as they were, also when their write runs.
C12_CapitalAndRecordsIndependent ==
  [][/\ (\E v \in CapitalTexts \cup AnalyticsCapitalTexts : ChangeStartingCapital(v)) =>
          /\ records' = records
          /\ localStorage' = localStorage
          /\ STORAGE_KEY \notin pendingEffects'
     /\ ((\E decision \in {"Yes", "No"} : HandleDecision(decision))
           \/ Clear(TRUE) \/ DeleteLast(TRUE)) =>
          /\ startingCapital' = startingCapital
          /\ localStorage' = localStorage
          /\ CAPITAL_KEY \notin pendingEffects'
     /\ (RunEffects /\ STORAGE_KEY \notin pendingEffects) =>
          localStorage'[STORAGE_KEY] = localStorage[STORAGE_KEY]
     /\ (RunEffects /\ CAPITAL_KEY \notin pendingEffects) =>
          localStorage'[CAPITAL_KEY] = localStorage[CAPITAL_KEY]
     /\ RunEffects => (records' = records /\ startingCapital' = startingCapital)]_vars

\* C12 witness: the starting capital has just been changed to 0 over a
\* ledger of two records; its write is due and the store is as it was.
C12_Witness ==
  /\ pendingEffects = {CAPITAL_KEY}
  /\ startingCapital = Num(0)
  /\ Len(records) = 2
  /\ localStorage[STORAGE_KEY] = Item(JSONStringify(records))
  /\ localStorage[CAPITAL_KEY] # Item(<<"0">>)

\* C13: whenever the ledger is empty, neither screen renders a win rate or
\* an average net (the Statistics panel is not rendered), and the dialog, if
\* open, shows the infinity sign as profit factor and N/A as risk/reward; no
\* 0/0 is computed or shown.
C13_EmptyLedgerShowsNoRatio ==
  /\ records = <<>> =>
       /\ StatisticsPanel(records).winRate = <<>>
       /\ StatisticsPanel(records).avgNet = <<>>
       /\ DetailedStatistics.profitFactor \in {<<>>, InfinitySign}
       /\ DetailedStatistics.riskReward \in {<<>>, NotAvailable}
       /\ showAnalytics => DetailedStatistics.profitFactor = InfinitySign
       /\ showAnalytics => DetailedStatistics.riskReward = NotAvailable
  /\ basic.records = <<>> =>
       /\ BasicStatisticsPanel(basic).winRate = <<>>
       /\ BasicStatisticsPanel(basic).avgNet = <<>>

\* C13 witness: Clear has just emptied a ledger with the dialog open (the
\* store still holds the records).
C13_Witness ==
  /\ records = <<>>
  /\ basic.records = <<>>
  /\ showAnalytics
  /\ pendingEffects = {STORAGE_KEY}
  /\ localStorage[STORAGE_KEY] # Item(JSONStringify(<<>>))
  /\ localStorage[STORAGE_KEY].present

\* The number of Yes records of rs.
WinCount(rs) == Cardinality({i \in 1..Len(rs) : rs[i].decision = "Yes"})

\* The finite number x is within tol of y.
Near(x, y, tol) == IsFinite(x) /\ Ge(Add(x, tol), y) /\ Ge(Add(y, tol), x)

\* C14: for every non-empty ledger built by appends, the total net is the
\* sum of the signed results, the win rate is wins / total * 100 and the
\* average net is total net / total, shown to one and to two decimals, on
\* both screens; with capital 10000 and Yes 50, No 20, Yes 30 the equity
\* curve is 10050, 10030, 10060, the total net 60, the win rate 66.7% and
\* the average net 20.
C14_SummaryStatistics ==
  /\ records # <<>> =>
       LET net == NetOfFirst(records, Len(records))
           rate == Rat(100 * WinCount(records), Len(records))
           avg == Div(net, Num(Len(records)))
           panel == StatisticsPanel(records)
           other == BasicStatisticsPanel(basic)
       IN  /\ TotalNet(records) = net
           /\ WinRate(records) = rate
           /\ AvgNet(records) = avg
           /\ panel.totalNet = (IF net.n >= 0 THEN <<"+">> ELSE <<>>) \o StringOf(net)
           /\ panel.winRate[Len(panel.winRate)] = "%"
           /\ Near(NumberOf(SubSeq(panel.winRate, 1, Len(panel.winRate) - 1)),
                   rate, Rat(1, 20))
           /\ Near(NumberOf(panel.avgNet), avg, Rat(1, 200))
           /\ other.totalNet = panel.totalNet
           /\ other.winRate = panel.winRate
           /\ other.avgNet = panel.avgNet
  /\ (records = ScenarioLedger /\ startingCapital = Num(10000)) =>
       /\ [i \in 1..3 |-> GetEquityCurve[i].balance] = <<Num(10050), Num(10030), Num(10060)>>
       /\ TotalNet(records) = Num(60)
       /\ StatisticsPanel(records).totalNet = <<"+", "6", "0">>
       /\ StatisticsPanel(records).winRate = <<"6", "6", ".", "7", "%">>
       /\ StatisticsPanel(records).avgNet = <<"2", "0", ".", "0", "0">>
       /\ AvgNet(records) = Num(20)

\* C14 witness: the ledger Yes 50, No 20, Yes 30 over a capital of 10000,
\* with the dialog open.
C14_Witness ==
  /\ records = ScenarioLedger
  /\ startingCapital = Num(10000)
  /\ showAnalytics
  /\ Len(GetEquityCurve) = 3

\* The running peak after the first k records: the largest of the starting
\* capital and the first k running balances.
RECURSIVE PeakOfFirst(_, _, _)
PeakOfFirst(rs, capital, k) ==
  IF k = 0 THEN capital
  ELSE LET before == PeakOfFirst(rs, capital, k - 1)
           balance == Add(capital, NetOfFirst(rs, k))
       IN  IF Gt(balance, before) THEN balance ELSE before

\* C15 (as claimed): for every record i of the drawdown curve, the drawdown
\* is (peak_i - balance_i) / peak_i * 100 (to two decimals) with peak_i the
\* largest of the starting capital and the balances so far, and is 0 when
\* peak_i is 0, for every starting capital the user can set, 0 included.
C15_DrawdownGuardsZeroPeak ==
  /\ Len(GetDrawdownData.data) = Len(records)
  /\ \A i \in 1..Len(records) :
       LET peak == PeakOfFirst(records, startingCapital, i)
           balance == Add(startingCapital, NetOfFirst(records, i))
           drawdown == GetDrawdownData.data[i].drawdown
       IN  IF peak = Num(0) THEN drawdown = Num(0)
           ELSE Near(drawdown, Mul(Div(Sub(peak, balance), peak), Num(100)),
                     Rat(1, 200))

\* C16 (as claimed): over every ledger built by appends, the risk/reward
\* ratio shown is avgWin / avgLoss when there is at least one win and one
\* loss and "N/A" otherwise, the profit factor shown is winsAmount /
\* lossesAmount, or the infinity sign when lossesAmount is 0, and no value
\* shown is the outcome of a division by zero.
C16_RatiosNeverDivideByZero ==
  LET wins == SelectSeq(records, IsWin)
      losses == SelectSeq(records, IsLoss)
      winsAmount == SumTp(wins)
      lossesAmount == SumSl(losses)
      avgWin == Div(winsAmount, Num(Len(wins)))
      avgLoss == Div(lossesAmount, Num(Len(losses)))
  IN  /\ IF Len(wins) > 0 /\ Len(losses) > 0
         THEN /\ avgLoss # Num(0)
              /\ RiskRewardText = ToFixed(Div(avgWin, avgLoss), 2)
         ELSE RiskRewardText = NotAvailable
      /\ IF lossesAmount = Num(0)
         THEN ProfitFactorText = InfinitySign
         ELSE ProfitFactorText = ToFixed(Div(winsAmount, lossesAmount), 2)

\* The sum of SignedResult over those of the first k records that fall in
\* the month shown as `month` in the zone tz.
RECURSIVE NetOfMonth(_, _, _, _)
NetOfMonth(rs, k, month, tz) ==
  IF k = 0 THEN Num(0)
  ELSE Add(NetOfMonth(rs, k - 1, month, tz),
           IF MonthOf(rs[k].timestamp, tz) = month THEN SignedResult(rs[k]) ELSE Num(0))

\* The position of the first record of a month.
FirstOfMonth(rs, month, tz) ==
  CHOOSE k \in 1..Len(rs) :
    /\ MonthOf(rs[k].timestamp, tz) = month
    /\ \A j \in 1..(k - 1) : MonthOf(rs[j].timestamp, tz) # month

\* The sum of the profits of the first k entries.
RECURSIVE SumOfProfits(_, _)
SumOfProfits(entries, k) ==
  IF k = 0 THEN Num(0) ELSE Add(SumOfProfits(entries, k - 1), entries[k].profit)

\* One entry per month that occurs among the records, in the order in which
\* the months first occur.
MonthsInFirstOccurrenceOrder(entries, tz) ==
  /\ {entries[i].month : i \in 1..Len(entries)}
       = {MonthOf(records[k].timestamp, tz) : k \in 1..Len(records)}
  /\ \A i, j \in 1..Len(entries) :
       i < j => FirstOfMonth(records, entries[i].month, tz)
                  < FirstOfMonth(records, entries[j].month, tz)

\* C17 (as claimed): in every time zone, the monthly performance has one
\* entry per month-and-year that occurs among the records, in the order of
\* the months' first occurrence, each entry's profit is the sum of the
\* signed results of exactly the records of its month, and the profits sum
\* to the total net of the ledger.
C17_MonthlyProfitIsExactSum ==
  \A tz \in TimezoneOffsets :
    LET entries == GetMonthlyPerformance(tz)
    IN  /\ MonthsInFirstOccurrenceOrder(entries, tz)
        /\ \A i \in 1..Len(entries) :
             entries[i].profit = NetOfMonth(records, Len(records), entries[i].month, tz)
        /\ SumOfProfits(entries, Len(entries)) = NetOfFirst(records, Len(records))

\* C17 (amended): in every time zone, the monthly performance has one entry
\* per month-and-year that occurs among the records, in the order of the
\* months' first occurrence, each entry's profit is the sum of the signed
\* results of exactly the records of its month rounded to two decimals, and
\* the profits sum to the total net of the ledger to within half a cent per
\* month.
C17_MonthlyProfitIsRoundedSum ==
  \A tz \in TimezoneOffsets :
    LET entries == GetMonthlyPerformance(tz)
    IN  /\ MonthsInFirstOccurrenceOrder(entries, tz)
        /\ \A i \in 1..Len(entries) :
             /\ Near(entries[i].profit,
                     NetOfMonth(records, Len(records), entries[i].month, tz),
                     Rat(1, 200))
             /\ 100 % entries[i].profit.d = 0
        /\ Near(SumOfProfits(entries, Len(entries)),
                NetOfFirst(records, Len(records)), Rat(Len(entries), 200))

\* Three records whose months are December, January, December in a zone
\* five hours behind UTC: two entries, December first, the 0.004 of the
\* third record lost to the rounding.
C17_Witness ==
  /\ records = ThereAndBackLedger
  /\ Len(GetMonthlyPerformance(300)) = 2
  /\ GetMonthlyPerformance(300)[1]
       = [month |-> <<"D", "e", "c", " ", "1", "9", "6", "9">>, profit |-> Num(50)]
  /\ GetMonthlyPerformance(300)[2]
       = [month |-> <<"J", "a", "n", " ", "1", "9", "7", "0">>, profit |-> Num(-20)]
  /\ Len(GetMonthlyPerformance(0)) = 1

\* C18: Yes or No appends only in a state where both the tp and the sl input
\* hold a text, on both screens, the record made holds the numbers of those
\* texts, and the step leaves both inputs empty; so a second append needs
\* both inputs typed again, and no record is made from an empty input.
C18_AppendNeedsBothInputs ==
  [][(\E decision \in {"Yes", "No"} : HandleDecision(decision))
       => /\ tp # <<>> /\ sl # <<>>
          /\ basic.tp # <<>> /\ basic.sl # <<>>
          /\ records'[Len(records')].tp = NumberOf(tp)
          /\ records'[Len(records')].sl = NumberOf(sl)
          /\ tp' = <<>> /\ sl' = <<>>
          /\ basic'.tp = <<>> /\ basic'.sl = <<>>]_vars

\* A second append has happened, from inputs typed again after the first,
\* and has emptied them.
C18_Witness ==
  /\ Len(records) = 2
  /\ records[2].decision = "Yes"
  /\ records[2].sl = Num(20)
  /\ tp = <<>> /\ sl = <<>>
  /\ basic.tp = <<>> /\ basic.sl = <<>>
  /\ pendingEffects = {STORAGE_KEY}
  /\ localStorage[STORAGE_KEY] = Item(JSONStringify(SubSeq(records, 1, 1)))

\* C19: on the analytics screen a Clear or Delete Last whose confirmation is
\* declined leaves the records, the tp and sl inputs, the starting capital,
\* both stored entries and the set of writes due as they were; a confirmed
\* Clear empties the records, a confirmed Delete Last removes exactly the
\* last record, and each makes the write of trade-tracker-records due.
C19_DeclineChangesNothing ==
  [][/\ (Clear(FALSE) \/ DeleteLast(FALSE))
          => UNCHANGED <<records, tp, sl, startingCapital, showAnalytics,
                         localStorage, pendingEffects, crashed>>
     /\ Clear(TRUE)
          => records' = <<>> /\ pendingEffects' = {STORAGE_KEY}
               /\ UNCHANGED <<startingCapital, localStorage>>
     /\ DeleteLast(TRUE)
          => /\ Len(records') = Len(records) - 1
             /\ IsPrefix(records', records)
             /\ pendingEffects' = {STORAGE_KEY}
             /\ UNCHANGED <<tp, sl, startingCapital, localStorage>>]_vars

\* A confirmed Delete Last has removed the second record and left the typed
\* inputs and the store alone: its write is still due.
C19_Witness ==
  /\ Len(records) = 1
  /\ tp # <<>> /\ sl # <<>>
  /\ startingCapital = Num(0)
  /\ pendingEffects = {STORAGE_KEY}
  /\ localStorage[STORAGE_KEY].present
  /\ JSONParse(localStorage[STORAGE_KEY].value).ok
  /\ IsPrefix(records, JSONParse(localStorage[STORAGE_KEY].value).value)
  /\ Len(JSONParse(localStorage[STORAGE_KEY].value).value) = 2

====
